---- MODULE Spec2Model ----
(***************************************************************************)
(* A model of @eleven-am/nestjs-graphql-crud: the generated CRUD service   *)
(* (createBaseCrudService), the relation resolvers, the configuration      *)
(* builder (crudModuleConfig) and the resolver synthesis chain.            *)
(*                                                                         *)
(* JavaScript values are encoded as follows.  An object is a function      *)
(* whose domain is the set of its defined keys; the empty object {} is     *)
(* the empty function << >>.  An optional value (one that may be           *)
(* undefined) is a sequence of length at most one: << >> is undefined and  *)
(* <<v>> is the value v.  An array is a sequence.                          *)
(***************************************************************************)
EXTENDS Integers, Sequences, FiniteSets, TLC

(***************************************************************************)
(* Bounds of the model.                                                    *)
(***************************************************************************)
\* Number of service calls of one run.
MaxCalls == 2
\* Number of row ids the storage can hold.
NumIds == 2
\* Largest take and largest skip of a findMany argument.
MaxTake == 2
MaxSkip == 1
\* Number of relation configs and method bindings one builder accumulates, and
\* number of entries of its providers list.
MaxConfigs == 2
MaxProviders == 2
\* Builder calls on the module lists in one run of the assembly specification.
MaxBuilderCalls == 3
\* createFindMany calls in one run of the find-many-type specification.
MaxFindManyCalls == 3
\* Active subscriptions of the model's channel.
NumSubscribers == 2

VARIABLES
    \* ---- CRUD service over a storage collaborator and a pub/sub ----
    store,      \* storage: id -> <<value of the row's field>>, or NoVal when absent
    ability,    \* the authorization context of the caller
    ncalls,     \* number of service calls invoked so far
    cur,        \* the service call in progress (or the one that just finished)
    last,       \* the service call before it
    pubLog,     \* the pubSub.publish invocations of the call in progress, with outcome
    \* ---- findMany normalisation ----
    fm,         \* the findMany call: its args, the normalizedArgs sent to storage, its rows
    \* ---- relation resolution ----
    rel,        \* the relation field being resolved, the storage calls made, the result
    \* ---- configuration builder and resolver synthesis ----
    cfg,        \* the options a builder accumulates, the builder object the caller
                \* holds, the outcome of its last call, the synthesized resolver class
    \* ---- a synthesized custom operation serving a request ----
    cust,       \* the request, the call made on the factory object, the response
    \* ---- the pub/sub engine and the subscribers of the model's channel ----
    sub,        \* per subscriber: its filter, the events queued for it, what it got
    \* ---- module assembly ----
    asm,        \* the module lists of a builder's options and the assembled module
    \* ---- the find-many input types generated in this process ----
    cache       \* findManyArgsCache, and the createFindMany calls made so far

vars == <<store, ability, ncalls, cur, last, pubLog, fm, rel, cfg, cust, sub, asm, cache>>

(***************************************************************************)
(* Storage collaborator (DataProvider).  A row is [id, val].  A where      *)
(* clause is an object of field constraints; a row matches when it agrees  *)
(* on every key of the clause.  An ability is the authorization context:   *)
(* per action, the condition (a where clause) that accessibleBy(ability,   *)
(* action) contributes to the query.                                       *)
(***************************************************************************)
ModelName == "user"
\* The model names of the entities configured on one factory.
ModelNames == {"user", "post"}
Ids == 1..NumIds
Vals == {0, 1}
\* The storage slot of an absent row (an optional value that is undefined).
NoVal == << >>
Slots == {NoVal} \cup {<<v>> : v \in Vals}
EmptyWhere == << >>
Wheres == {EmptyWhere} \cup {[val |-> v] : v \in Vals}

Abilities ==
    { [Read |-> EmptyWhere, Update |-> EmptyWhere, Delete |-> EmptyWhere],
      [Read |-> EmptyWhere, Update |-> [val |-> 0], Delete |-> [val |-> 0]] }

Matches(row, where) == \A k \in DOMAIN where : row[k] = where[k]

RowOf(st, i) == [id |-> i, val |-> st[i][1]]

\* The rows of the storage state st that satisfy both conditions, in id order.
RowsWhere(st, cond, where) ==
    LET idSeq == [i \in 1..NumIds |-> i]
        Keep(i) == /\ st[i] # NoVal
                   /\ Matches(RowOf(st, i), cond)
                   /\ Matches(RowOf(st, i), where)
        kept == SelectSeq(idSeq, Keep)
    IN [n \in 1..Len(kept) |-> RowOf(st, kept[n])]

\* dataProvider.findMany(modelName, ability, {where}, select)
DpFindMany(st, ab, where) == RowsWhere(st, ab.Read, where)

\* dataProvider.updateMany: every row the ability may update and the where
\* clause matches gets the new data.
DpUpdateMany(st, ab, data, where) ==
    [i \in Ids |->
        IF st[i] # NoVal /\ Matches(RowOf(st, i), ab.Update)
                         /\ Matches(RowOf(st, i), where)
        THEN <<data>> ELSE st[i]]

\* dataProvider.deleteMany: every row the ability may delete and the where
\* clause matches is removed.
DpDeleteMany(st, ab, where) ==
    [i \in Ids |->
        IF st[i] # NoVal /\ Matches(RowOf(st, i), ab.Delete)
                         /\ Matches(RowOf(st, i), where)
        THEN NoVal ELSE st[i]]

\* dataProvider.update / delete address one row by id, under the ability.
DpCanUpdate(st, ab, i) == st[i] # NoVal /\ Matches(RowOf(st, i), ab.Update)
DpCanDelete(st, ab, i) == st[i] # NoVal /\ Matches(RowOf(st, i), ab.Delete)

\* dataProvider.create stores the data under an unused id.
FreeIds(st) == {i \in Ids : st[i] = NoVal}
FreshId(st) == CHOOSE i \in FreeIds(st) : \A j \in FreeIds(st) : i <= j

(***************************************************************************)
(* The CRUD service.  A request is one call of a service method; it        *)
(* advances from one await to the next.  Between two awaits of a request,  *)
(* other requests of the application may write to the storage (the         *)
(* service takes no lock): ConcurrentWrite.                                *)
(***************************************************************************)
SingleOps == {"create", "update", "delete"}
BulkOps == {"updateMany", "deleteMany"}
Ops == SingleOps \cup BulkOps

\* A service whose create announces itself as an update.
ActionOfSwapped(op) ==
    CASE op = "create" -> "UPDATE"
      [] op = "update" -> "UPDATE"
      [] op = "delete" -> "DELETE"
      [] op = "updateMany" -> "UPDATE_MANY"
      [] op = "deleteMany" -> "DELETE_MANY"

\* CrudAction published by each service method.
ActionOf(op) ==
    CASE op = "create" -> "CREATE"
      [] op = "update" -> "UPDATE"
      [] op = "delete" -> "DELETE"
      [] op = "updateMany" -> "UPDATE_MANY"
      [] op = "deleteMany" -> "DELETE_MANY"

IdleCall ==
    [pc |-> "idle", op |-> "create", data |-> 0, where |-> EmptyWhere, id |-> 1,
     snapshot |-> << >>, res |-> << >>, out |-> << >>,
     after |-> [i \in Ids |-> NoVal], dirty |-> FALSE, log |-> << >>,
     raised |-> << >>, thrown |-> << >>, mutated |-> << >>,
     model |-> ModelName]

\* The arguments each method reads; the others stay at their idle values.
ArgsOf(op, data, where, id) ==
    [IdleCall EXCEPT
        !.op = op,
        !.data = IF op \in {"create", "update", "updateMany"} THEN data ELSE IdleCall.data,
        !.where = IF op \in BulkOps THEN where ELSE IdleCall.where,
        !.id = IF op \in {"update", "delete"} THEN id ELSE IdleCall.id]

\* The first await of each method: the bulk methods pre-fetch, the others go
\* straight to the storage mutation.
FirstPc(op) == IF op \in BulkOps THEN "prefetch" ELSE "storage"

Finished(k) == k.pc \in {"idle", "returned", "threw"}

\* What is remembered of the call before the one in progress: a bulk call that
\* returned with no write of another request since its pre-fetch.
NoLast ==
    [some |-> FALSE, op |-> "updateMany", data |-> 0, where |-> EmptyWhere,
     out |-> << >>, after |-> [i \in Ids |-> NoVal]]

Summary(k) ==
    IF k.pc = "returned" /\ k.op \in BulkOps /\ ~k.dirty
    THEN [some |-> TRUE, op |-> k.op, data |-> k.data, where |-> k.where,
          out |-> k.out[1], after |-> k.after]
    ELSE NoLast

\* A caller invokes a service method; the call before it becomes `last`.
Invoke(op, data, where, id) ==
    /\ Finished(cur)
    /\ ncalls < MaxCalls
    /\ ncalls' = ncalls + 1
    /\ last' = Summary(cur)
    /\ cur' = [ArgsOf(op, data, where, id) EXCEPT
                  !.pc = FirstPc(op), !.log = <<"invoke">>, !.model = cur.model]
    /\ pubLog' = << >>
    /\ UNCHANGED <<store, ability, fm, rel, cfg, cust, sub, asm, cache>>

\* The errors a storage call may reject with.
Errors == {"E1", "E2"}

\* A service that tries a failed storage call a second time before giving up.
AfterStorageErrorRetried(step, e) ==
    IF \A n \in 1..Len(cur.log) : cur.log[n] # step
    THEN [cur EXCEPT !.log = Append(@, step), !.raised = <<e>>]
    ELSE [cur EXCEPT !.pc = "threw", !.log = Append(@, step),
                     !.raised = <<e>>, !.thrown = <<e>>]

\* A service that catches the rejection and carries on with the next step.
AfterStorageErrorSwallowed(step, e) ==
    [cur EXCEPT !.pc = IF step = "prefetchFail" THEN "storage" ELSE "publish",
                !.log = Append(@, step), !.raised = <<e>>]

\* An awaited storage call rejects with e: no method has a try/catch, so the
\* method stops there and its own promise rejects with e.
AfterStorageError(step, e) ==
    [cur EXCEPT !.pc = "threw", !.log = Append(@, step),
                !.raised = <<e>>, !.thrown = <<e>>]

\* A service that answers a repeated bulk call from the previous call's result.
PrefetchRemembered ==
    IF last.some /\ last.op = cur.op /\ last.where = cur.where
    THEN last.out
    ELSE DpFindMany(store, ability, cur.where)

\* updateMany / deleteMany: await dataProvider.findMany(modelName, ability, {where}, select)
PrefetchResult == DpFindMany(store, ability, cur.where)

Prefetch ==
    /\ cur.pc = "prefetch"
    /\ \/ cur' = [cur EXCEPT !.pc = "storage",
                             !.snapshot = PrefetchResult,
                             !.dirty = FALSE,
                             !.log = Append(@, "prefetchOk")]
       \/ \E e \in Errors : cur' = AfterStorageError("prefetchFail", e)
    /\ UNCHANGED <<store, ability, ncalls, last, pubLog, fm, rel, cfg, cust, sub, asm, cache>>

\* The rows a bulk mutation acts on: those its where clause and the ability's
\* condition for the action select at the time of the mutation.
BulkTouched ==
    RowsWhere(store,
              IF cur.op = "updateMany" THEN ability.Update ELSE ability.Delete,
              cur.where)

\* A storage that refuses a bulk mutation when a row was written since the
\* request's pre-fetch (rows locked or versioned by the pre-fetch).
StorageCanUnlessWritten ==
    CASE cur.op = "create" -> FreeIds(store) # {}
      [] cur.op = "update" -> DpCanUpdate(store, ability, cur.id)
      [] cur.op = "delete" -> DpCanDelete(store, ability, cur.id)
      [] OTHER -> ~cur.dirty

\* Whether the storage mutation of the call can succeed in the current state.
StorageCan ==
    CASE cur.op = "create" -> FreeIds(store) # {}
      [] cur.op = "update" -> DpCanUpdate(store, ability, cur.id)
      [] cur.op = "delete" -> DpCanDelete(store, ability, cur.id)
      [] OTHER -> TRUE

\* The storage state a successful mutation of the call leaves.
StorageEffect ==
    CASE cur.op = "create" -> [store EXCEPT ![FreshId(store)] = <<cur.data>>]
      [] cur.op = "update" -> [store EXCEPT ![cur.id] = <<cur.data>>]
      [] cur.op = "delete" -> [store EXCEPT ![cur.id] = NoVal]
      [] cur.op = "updateMany" -> DpUpdateMany(store, ability, cur.data, cur.where)
      [] cur.op = "deleteMany" -> DpDeleteMany(store, ability, cur.where)

\* What the storage mutation resolves to: the created, updated or deleted
\* entity; the bulk methods ignore the storage result.
StorageResult ==
    CASE cur.op = "create" -> <<[id |-> FreshId(store), val |-> cur.data]>>
      [] cur.op = "update" -> <<[id |-> cur.id, val |-> cur.data]>>
      [] cur.op = "delete" -> <<RowOf(store, cur.id)>>
      [] OTHER -> << >>

\* await dataProvider.create / update / delete / updateMany / deleteMany
Storage ==
    /\ cur.pc = "storage"
    /\ \/ /\ StorageCan
          /\ store' = StorageEffect
          /\ cur' = [cur EXCEPT !.pc = "publish",
                                !.res = StorageResult,
                                !.after = IF cur.op \in BulkOps THEN StorageEffect ELSE @,
                                !.mutated = IF cur.op \in BulkOps THEN BulkTouched ELSE @,
                                !.log = Append(@, "storageOk")]
       \/ /\ \E e \in Errors : cur' = AfterStorageError("storageFail", e)
          /\ UNCHANGED store
    /\ UNCHANGED <<ability, ncalls, last, pubLog, fm, rel, cfg, cust, sub, asm, cache>>

\* A service whose bulk methods read the rows again after the mutation.
PayloadReadAfter ==
    IF cur.op \in BulkOps
    THEN DpFindMany(store, ability, cur.where)
    ELSE cur.res[1]

\* The value each method hands to publish and returns: the storage result for
\* create / update / delete, the pre-fetch result for the bulk methods.
Payload ==
    IF cur.op \in BulkOps THEN cur.snapshot ELSE cur.res[1]

\* publish(action, data): arrayData = Array.isArray(data) ? data : [data]
\* A publish that wraps whatever it is given.
ArrayDataAlwaysWrapped == <<Payload>>

ArrayData ==
    IF cur.op \in BulkOps THEN Payload ELSE <<Payload>>

PublishedEvent ==
    [chan |-> cur.model, action |-> ActionOf(cur.op), data |-> ArrayData]

(***************************************************************************)
(* Subscribers of the model's channel.  Each active subscription holds the *)
(* iterator its subscription method returned: a queue of the payloads      *)
(* published since.  The filter and resolve hooks of the subscription are  *)
(* run for a subscriber when its iterator yields a payload.                *)
(***************************************************************************)
\* No active subscription.
IdleSub == << >>

\* this.pubSub.asyncIterableIterator(options.modelName) of a new subscription
\* with the given `filter` variable.  `ability` is the ability of the request
\* that opened the subscription; the subscription method does not take it.
NewSubscriber(filter) ==
    [filter |-> filter, queue |-> << >>, taken |-> 0, pc |-> "waiting",
     payload |-> << >>, out |-> << >>, error |-> << >>, chan |-> ModelName,
     ability |-> [Read |-> EmptyWhere, Update |-> EmptyWhere, Delete |-> EmptyWhere]]

\* The abilities of the requests that open subscriptions: one may read every
\* row, one only the rows with val = 0.
SubscriberAbilities ==
    { [Read |-> EmptyWhere, Update |-> EmptyWhere, Delete |-> EmptyWhere],
      [Read |-> [val |-> 0], Update |-> [val |-> 0], Delete |-> [val |-> 0]] }

\* The subscription opened by a request with ability ab.
SubscriberWith(ab, filter) == [NewSubscriber(filter) EXCEPT !.ability = ab]

\* The same for the subscription of the resolver of another model.
SubscriberOf(modelName, filter) ==
    [NewSubscriber(filter) EXCEPT !.chan = modelName]

\* A pub/sub with one channel for all models.
EmitOnEveryChannel(subs, triggerName, payload) ==
    [s \in DOMAIN subs |-> [subs[s] EXCEPT !.queue = Append(@, payload)]]

\* A pub/sub whose publish runs the subscribers' hooks in turn and stops at
\* the first subscriber whose hook throws (one subscribed without a filter).
EmitUntilHookThrows(subs, triggerName, payload) ==
    [s \in DOMAIN subs |->
        IF \/ subs[s].chan # triggerName
           \/ \E t \in DOMAIN subs : t <= s /\ subs[t].filter = << >>
        THEN subs[s]
        ELSE [subs[s] EXCEPT !.queue = Append(@, payload)]]

\* pubSub.publish(modelName, payload): every iterator of the channel gets the
\* payload.
Emit(subs, triggerName, payload) ==
    [s \in DOMAIN subs |->
        IF subs[s].chan = triggerName
        THEN [subs[s] EXCEPT !.queue = Append(@, payload)]
        ELSE subs[s]]

\* What the method does when the awaited publish rejects: nothing catches it.
AfterPublishFailure ==
    [cur EXCEPT !.pc = "threw", !.log = Append(@, "publishFail"),
                !.thrown = <<"PublishError">>]

\* await this.publish(action, res): pubSub.publish resolves or rejects.
Publish ==
    /\ cur.pc = "publish"
    /\ \/ /\ pubLog' = Append(pubLog, PublishedEvent @@ [ok |-> TRUE])
          /\ cur' = [cur EXCEPT !.pc = "return", !.log = Append(@, "publishOk")]
          /\ sub' = Emit(sub, cur.model,
                         [action |-> ActionOf(cur.op), data |-> ArrayData])
       \/ /\ pubLog' = Append(pubLog, PublishedEvent @@ [ok |-> FALSE])
          /\ cur' = AfterPublishFailure
          /\ UNCHANGED sub
    /\ UNCHANGED <<store, ability, ncalls, last, fm, rel, cfg, cust, asm, cache>>

\* return res / return gotUpdated / return gotDeleted
Return ==
    /\ cur.pc = "return"
    /\ cur' = [cur EXCEPT !.pc = "returned",
                          !.out = <<Payload>>,
                          !.log = Append(@, "return")]
    /\ UNCHANGED <<store, ability, ncalls, last, pubLog, fm, rel, cfg, cust, sub, asm, cache>>

\* Another request writes a row (creates, updates or deletes it) while a bulk
\* call is suspended between its pre-fetch and its bulk mutation.  (A write at
\* any other point is the same as starting from another storage state.)
ConcurrentWrite(i, v) ==
    /\ cur.pc = "storage"
    /\ cur.op \in BulkOps
    /\ store[i] # v
    /\ store' = [store EXCEPT ![i] = v]
    /\ cur' = [cur EXCEPT !.dirty = TRUE]
    /\ last' = NoLast
    /\ UNCHANGED <<ability, ncalls, pubLog, fm, rel, cfg, cust, sub, asm, cache>>

(***************************************************************************)
(* Subscription delivery: the hooks of the subscription, run for one       *)
(* subscriber and one payload.                                             *)
(***************************************************************************)
SubscriberIds == 1..NumSubscribers

\* The `filter` variable of a subscription: nullable, else a list of ids.
SubscriptionFilters ==
    {<< >>, <<[inIds |-> <<1>>]>>, <<[inIds |-> <<1, NumIds>>]>>}

\* SubscriptionResolverImpl.filter: filter.inIds.some(id => items.some(item
\* => item.id === id))
DefaultFilter(filter, changes) ==
    \E n \in 1..Len(filter.inIds) :
        \E k \in 1..Len(changes) : changes[k].id = filter.inIds[n]

\* dataProvider.findManyWithoutAbility(modelName, {where: {id: {in: inIds}}},
\* select): the stored rows with one of the ids, in id order.
DpFindManyWithoutAbility(st, inIds) ==
    LET idSeq == [i \in 1..NumIds |-> i]
        Keep(i) == st[i] # NoVal /\ \E n \in 1..Len(inIds) : inIds[n] = i
        kept == SelectSeq(idSeq, Keep)
    IN [n \in 1..Len(kept) |-> RowOf(st, kept[n])]

\* The earlier SubscriptionResolverImpl.resolve: return changes.
DefaultResolveReturnsChanges(filter, changes, st) == changes

\* SubscriptionResolverImpl.resolve(filter, changes, info)
DefaultResolve(filter, changes, st) == DpFindManyWithoutAbility(st, filter.inIds)

\* The iterator of subscriber s yields its next payload to the subscription
\* pipeline.
IteratorYields(s) ==
    /\ sub[s].pc = "waiting"
    /\ sub[s].queue # << >>
    /\ sub' = [sub EXCEPT ![s] = [@ EXCEPT !.payload = <<Head(sub[s].queue)>>,
                                          !.queue = Tail(@),
                                          !.taken = @ + 1,
                                          !.out = << >>,
                                          !.pc = "filter"]]
    /\ UNCHANGED <<store, ability, ncalls, cur, last, pubLog, fm, rel, cfg, cust, asm, cache>>

\* filter(payload, variables): this.resolver.filter(variables.filter,
\* payload.data).  Without a filter variable, filter.inIds throws.
FilterHook(s) ==
    /\ sub[s].pc = "filter"
    /\ sub' = [sub EXCEPT ![s] =
                 IF sub[s].filter = << >>
                 THEN [@ EXCEPT !.pc = "failed", !.error = <<"TypeError">>]
                 ELSE IF DefaultFilter(sub[s].filter[1], sub[s].payload[1].data)
                 THEN [@ EXCEPT !.pc = "resolve"]
                 ELSE [@ EXCEPT !.pc = "waiting", !.payload = << >>]]
    /\ UNCHANGED <<store, ability, ncalls, cur, last, pubLog, fm, rel, cfg, cust, asm, cache>>

\* resolve(payload, variables, _ctx, info): this.resolver.resolve(
\* variables.filter, payload.data, info); the storage read resolves or rejects.
ResolveHook(s) ==
    /\ sub[s].pc = "resolve"
    /\ \/ sub' = [sub EXCEPT ![s] =
                    [@ EXCEPT !.pc = "waiting",
                              !.out = <<DefaultResolve(sub[s].filter[1],
                                                       sub[s].payload[1].data,
                                                       store)>>]]
       \/ \E e \in Errors :
             sub' = [sub EXCEPT ![s] = [@ EXCEPT !.pc = "failed", !.error = <<e>>]]
    /\ UNCHANGED <<store, ability, ncalls, cur, last, pubLog, fm, rel, cfg, cust, asm, cache>>

(***************************************************************************)
(* findMany.  The args object is a record of optional values, one per key  *)
(* the method reads: a key that is absent reads as undefined, << >>.       *)
(***************************************************************************)
Opt(S) == {<< >>} \cup {<<x>> : x \in S}

Paginations == [take : Opt(1..MaxTake), skip : Opt(0..MaxSkip)]

FindManyArgs ==
    [where : Opt({EmptyWhere, [val |-> 1]}),
     pagination : Opt(Paginations),
     take : Opt(1..MaxTake),
     skip : Opt(0..MaxSkip),
     orderBy : Opt({"asc"}),
     cursor : Opt({1}),
     distinct : Opt({"val"})]

\* x || {}
OrEmpty(x) == IF x = << >> THEN EmptyWhere ELSE x[1]

\* findMany: normalizedArgs
NormalizedArgs(args) ==
    IF args.where # << >> \/ args.pagination # << >>
    THEN [where |-> OrEmpty(args.where),
          pagination |-> args.pagination,
          orderBy |-> << >>, cursor |-> << >>, distinct |-> << >>]
    ELSE [where |-> OrEmpty(args.where),
          pagination |-> <<[take |-> args.take, skip |-> args.skip]>>,
          orderBy |-> args.orderBy,
          cursor |-> args.cursor,
          distinct |-> args.distinct]

\* pagination?.take and pagination?.skip as the storage collaborator reads them
TakeOf(n) == IF n.pagination = << >> THEN << >> ELSE n.pagination[1].take
SkipOf(n) == IF n.pagination = << >> THEN << >> ELSE n.pagination[1].skip

\* dataProvider.findMany(modelName, ability, normalizedArgs, select): the rows
\* that match, after skipping `skip` of them and keeping at most `take`.
DpFindManyPaged(st, ab, n) ==
    LET all == DpFindMany(st, ab, n.where)
        s == IF SkipOf(n) = << >> THEN 0 ELSE SkipOf(n)[1]
        rest == IF s >= Len(all) THEN << >> ELSE SubSeq(all, s + 1, Len(all))
        t == IF TakeOf(n) = << >> THEN Len(rest) ELSE TakeOf(n)[1]
    IN IF t >= Len(rest) THEN rest ELSE SubSeq(rest, 1, t)

IdleFm ==
    [pc |-> "idle",
     args |-> [where |-> << >>, pagination |-> << >>, take |-> << >>, skip |-> << >>,
               orderBy |-> << >>, cursor |-> << >>, distinct |-> << >>],
     normalizedArgs |-> << >>,
     rows |-> << >>]

\* findMany(ability, args, select) up to its await of dataProvider.findMany
FindMany(args) ==
    /\ fm.pc = "idle"
    /\ fm' = [pc |-> "awaiting", args |-> args,
              normalizedArgs |-> <<NormalizedArgs(args)>>, rows |-> << >>]
    /\ UNCHANGED <<store, ability, ncalls, cur, last, pubLog, rel, cfg, cust, sub, asm, cache>>

\* dataProvider.findMany resolves and findMany returns its rows
FindManyReturn ==
    /\ fm.pc = "awaiting"
    /\ fm' = [fm EXCEPT !.pc = "done",
                        !.rows = DpFindManyPaged(store, ability, fm.normalizedArgs[1])]
    /\ UNCHANGED <<store, ability, ncalls, cur, last, pubLog, rel, cfg, cust, sub, asm, cache>>

(***************************************************************************)
(* Relation resolution.  A foreign-key value read off the parent is null,  *)
(* undefined, the empty string, or the id of a row.  Two classes carry     *)
(* resolveOneToOne / resolveOneToMany: the relation resolver base class    *)
(* (CombinedRelationResolver), which the relation field resolvers extend,  *)
(* and the CRUD service (BaseCrudService).                                 *)
(***************************************************************************)
FkValues ==
    {[t |-> "null", v |-> 0], [t |-> "undefined", v |-> 0], [t |-> "emptyString", v |-> 0]}
        \cup {[t |-> "id", v |-> i] : i \in Ids}

\* !itemId
Falsy(fk) == fk.t # "id"

Entries == {"resolver", "service"}

\* The keys a caller's where clause may carry, and the foreign keys a relation
\* may be configured with.
RelKeys == {"authorId", "title"}
ForeignKeys == RelKeys

WhereObjects == UNION {[K -> Ids] : K \in SUBSET RelKeys}

\* The optional filter argument of a one-to-many field: {where?, pagination?}
Filters == Opt([where : Opt(WhereObjects), pagination : Opt({[take |-> <<1>>, skip |-> << >>]})])

\* A resolver in which the caller's keys are spread after the foreign key.
ForeignKeyWhereCallerLast(where, foreignKey, itemId) ==
    LET given == IF where = << >> THEN EmptyWhere ELSE OrEmpty(where[1].where)
    IN [k \in DOMAIN given \cup {foreignKey} |->
           IF k \in DOMAIN given THEN given[k] ELSE itemId]

\* {...(where?.where || {}), [foreignKey]: itemId}
ForeignKeyWhere(where, foreignKey, itemId) ==
    LET given == IF where = << >> THEN EmptyWhere ELSE OrEmpty(where[1].where)
    IN [k \in DOMAIN given \cup {foreignKey} |->
           IF k = foreignKey THEN itemId ELSE given[k]]

\* pagination: where?.pagination
PaginationOfFilter(where) == IF where = << >> THEN << >> ELSE where[1].pagination

IdleRel ==
    [pc |-> "idle", kind |-> "oneToOne", entry |-> "resolver",
     fk |-> [t |-> "undefined", v |-> 0], foreignKey |-> "authorId", parentId |-> 1,
     filter |-> << >>, dpCalls |-> << >>, result |-> << >>]

\* CombinedRelationResolver.resolveOneToOne: whether it goes to storage.
ResolverGoesToStorage(fk) == ~Falsy(fk)

\* BaseCrudService.resolveOneToOne: whether it goes to storage.
ServiceGoesToStorage(fk) == TRUE

\* A one-to-one relation field is resolved for a parent whose foreign-key field
\* holds fk: through the relation resolver (resolve{FieldName} calling
\* this.resolveOneToOne) or through the service's resolveOneToOne.
ResolveOneToOne(entry, fk) ==
    /\ rel.pc = "idle"
    /\ LET goes == IF entry = "resolver" THEN ResolverGoesToStorage(fk)
                                          ELSE ServiceGoesToStorage(fk)
       IN rel' = [rel EXCEPT
                    !.kind = "oneToOne", !.entry = entry, !.fk = fk,
                    !.pc = IF goes THEN "awaiting" ELSE "done",
                    !.dpCalls = IF goes THEN <<[op |-> "findOne", where |-> [id |-> fk]]>>
                                        ELSE << >>,
                    !.result = IF goes THEN << >> ELSE <<"null">>]
    /\ UNCHANGED <<store, ability, ncalls, cur, last, pubLog, fm, cfg, cust, sub, asm, cache>>

\* A one-to-many relation field is resolved for the parent parentId with the
\* caller's filter: resolveOneToMany of either class.
ResolveOneToMany(entry, foreignKey, parentId, filter) ==
    /\ rel.pc = "idle"
    /\ rel' = [rel EXCEPT
                 !.kind = "oneToMany", !.entry = entry,
                 !.foreignKey = foreignKey, !.parentId = parentId, !.filter = filter,
                 !.pc = "awaiting",
                 !.dpCalls = <<[op |-> "findMany",
                                where |-> ForeignKeyWhere(filter, foreignKey, parentId),
                                pagination |-> PaginationOfFilter(filter)]>>]
    /\ UNCHANGED <<store, ability, ncalls, cur, last, pubLog, fm, cfg, cust, sub, asm, cache>>

\* The storage call resolves: a row or null for findOne, rows for findMany.
RelationReturn ==
    /\ rel.pc = "awaiting"
    /\ \E r \in {"null", "row", "rows"} :
          /\ rel.kind = "oneToMany" <=> r = "rows"
          /\ rel' = [rel EXCEPT !.pc = "done", !.result = <<r>>]
    /\ UNCHANGED <<store, ability, ncalls, cur, last, pubLog, fm, cfg, cust, sub, asm, cache>>

(***************************************************************************)
(* The configuration builder.  A string is a sequence of pieces, the first *)
(* piece being its first character whenever the code looks at it.          *)
(* cfg.handle is the class of the builder object the caller holds:         *)
(* CrudModuleConfig offers withCustomResolver; CustomResolverConfig offers *)
(* addQuery, addMutation, addResolveField and and(); both share the        *)
(* options object and the methods of BaseCrudModuleConfig.                 *)
(***************************************************************************)
FieldNames == {<<"p", "osts">>, <<"P", "osts">>}
\* Field names among which are those of relations called oneToMany and
\* oneToOne.
HelperFieldNames == {<<"p", "osts">>, <<"o", "neToMany">>, <<"o", "neToOne">>}
BindingNames == {<<"search">>, <<"findMany">>}
FactoryClasses == {"A", "B"}
NotRegistered == "Custom resolver class not registered"
CustomAdds == {"addQuery", "addMutation", "addResolveField"}

\* options.entity, the entity class of the module.
Entity == [lazy |-> FALSE, type |-> "User"]
\* The output types a caller declares for a binding: getters, () => Type.
OutputTypes == {[lazy |-> TRUE, type |-> "User"], [lazy |-> TRUE, type |-> "UserStats"]}
\* The JavaScript value null.
Null == <<"null">>

\* The config objects a caller passes to addQuery and addMutation: the keys of
\* the declaration in types.ts; nullable is optional.
BindingConfigs ==
    {[name |-> n, inputType |-> <<"SearchInput">>, outputType |-> out,
      nullable |-> IF out.type = "User" THEN << >> ELSE <<TRUE>>,
      methodName |-> <<"handle">> \o n,
      permissions |-> IF n = <<"search">> THEN <<"read">> ELSE <<"read", "manage">>]
        : n \in BindingNames, out \in OutputTypes}

\* The config objects a caller passes to addResolveField: inputType is optional
\* too, and resolveField names the field.
ResolveFieldConfigs ==
    {[name |-> c.name,
      inputType |-> IF c.nullable = << >> THEN << >> ELSE c.inputType,
      outputType |-> c.outputType, nullable |-> c.nullable,
      methodName |-> c.methodName, permissions |-> c.permissions,
      resolveField |-> <<"stats">>] : c \in BindingConfigs}

\* addQuery / addMutation: customConfig = {...config, inputType:
\* config.inputType, outputType: this.options.entity, isMutation}
CustomConfigOf(config, isMutation) ==
    [name |-> config.name,
     inputType |-> config.inputType,
     outputType |-> Entity,
     nullable |-> config.nullable,
     methodName |-> config.methodName,
     permissions |-> config.permissions,
     isMutation |-> isMutation,
     resolveField |-> << >>]

\* addResolveField: customConfig = {...config, inputType: config.inputType ||
\* null, outputType: config.outputType, isMutation: false, resolveField}
ResolveFieldConfigOf(config) ==
    [name |-> config.name,
     inputType |-> IF config.inputType = << >> THEN Null ELSE config.inputType,
     outputType |-> config.outputType,
     nullable |-> config.nullable,
     methodName |-> config.methodName,
     permissions |-> config.permissions,
     isMutation |-> FALSE,
     resolveField |-> config.resolveField]

\* The part of the options object the builder calls write.
Options(c) ==
    [relationResolvers |-> c.relationResolvers,
     customResolvers |-> c.customResolvers,
     providers |-> c.providers]

\* new CrudModuleConfig({...config, findManyArgs, entity}): the constructor
\* sets options.resolvers = {relationResolvers: []}.
NewConfig ==
    [handle |-> "CrudModuleConfig",
     relationResolvers |-> << >>,
     customResolvers |-> << >>,
     providers |-> << >>,
     lastCall |-> "withConfig",
     lastArg |-> << >>,
     thrown |-> << >>,
     under |-> << >>,
     before |-> [relationResolvers |-> << >>, customResolvers |-> << >>,
                 providers |-> << >>],
     final |-> << >>]

\* options.resolvers.customResolvers.factoryClass: the one factory class of
\* the entity, which every synthesized binding method hands to getFactory.
FactoryClassOf(c) == c.customResolvers[1].factoryClass

\* The method bindings accumulated so far.
Bindings(c) ==
    IF c.customResolvers = << >> THEN << >> ELSE c.customResolvers[1].customResolvers

ConfigSize(c) == Len(c.relationResolvers) + Len(Bindings(c))

\* options.providers.push(...), after `if (!options.providers) options.providers = []`
PushProvider(providers, p) ==
    IF providers = << >> THEN << <<p>> >> ELSE <<Append(providers[1], p)>>

\* What every builder call records: its name and the options it found (and,
\* for the custom adds, the config object it was given).  cfg.under keeps, for
\* each method binding, the factory class that was registered when the
\* binding was added: the TResolver its methodName was declared against.
Called(c, call) ==
    [c EXCEPT !.lastCall = call, !.lastArg = << >>, !.thrown = << >>,
              !.before = Options(c)]

\* addRelation(config)
AddRelation(f) ==
    /\ cfg.final = << >>
    /\ ConfigSize(cfg) < MaxConfigs
    /\ cfg' = [Called(cfg, "addRelation") EXCEPT
                 !.relationResolvers =
                     Append(@, [fieldName |-> f, oneToOneRelation |-> << >>])]
    /\ UNCHANGED <<store, ability, ncalls, cur, last, pubLog, fm, rel, cust, sub, asm, cache>>

\* addOneToOneRelation(config)
AddOneToOneRelation(f) ==
    /\ cfg.final = << >>
    /\ ConfigSize(cfg) < MaxConfigs
    /\ cfg' = [Called(cfg, "addOneToOneRelation") EXCEPT
                 !.relationResolvers =
                     Append(@, [fieldName |-> f, oneToOneRelation |-> <<TRUE>>])]
    /\ UNCHANGED <<store, ability, ncalls, cur, last, pubLog, fm, rel, cust, sub, asm, cache>>

\* withCustomResolver(resolverClass)
WithCustomResolver(F) ==
    /\ cfg.final = << >>
    /\ cfg.handle = "CrudModuleConfig"
    /\ (IF cfg.providers = << >> THEN 0 ELSE Len(cfg.providers[1])) < MaxProviders
    /\ cfg' = [Called(cfg, "withCustomResolver") EXCEPT
                 !.customResolvers =
                     IF @ = << >>
                     THEN <<[factoryClass |-> F, customResolvers |-> << >>]>>
                     ELSE <<[@[1] EXCEPT !.factoryClass = F]>>,
                 !.providers = PushProvider(@, F),
                 !.handle = "CustomResolverConfig"]
    /\ UNCHANGED <<store, ability, ncalls, cur, last, pubLog, fm, rel, cust, sub, asm, cache>>

\* A builder whose custom adds do nothing when no factory class is registered.
AfterCustomAddSilent(c, call, customConfig) ==
    IF c.customResolvers = << >>
    THEN Called(c, call)
    ELSE [Called(c, call) EXCEPT
            !.customResolvers =
                <<[@[1] EXCEPT !.customResolvers = Append(@, customConfig)]>>,
            !.under = Append(@, FactoryClassOf(c))]

\* addQuery / addMutation / addResolveField once customConfig is built: throw
\* when no custom resolver is registered, else push the binding.
AfterCustomAdd(c, call, customConfig) ==
    IF c.customResolvers = << >>
    THEN [Called(c, call) EXCEPT !.thrown = <<NotRegistered>>]
    ELSE [Called(c, call) EXCEPT
            !.customResolvers =
                <<[@[1] EXCEPT !.customResolvers = Append(@, customConfig)]>>,
            !.under = Append(@, FactoryClassOf(c))]

CustomAddEnabled ==
    /\ cfg.final = << >>
    /\ cfg.handle = "CustomResolverConfig"
    /\ cfg.customResolvers # << >> => ConfigSize(cfg) < MaxConfigs

\* addQuery(config)
AddQuery(config) ==
    /\ CustomAddEnabled
    /\ cfg' = [AfterCustomAdd(cfg, "addQuery", CustomConfigOf(config, FALSE))
                 EXCEPT !.lastArg = <<config>>]
    /\ UNCHANGED <<store, ability, ncalls, cur, last, pubLog, fm, rel, cust, sub, asm, cache>>

\* addMutation(config)
AddMutation(config) ==
    /\ CustomAddEnabled
    /\ cfg' = [AfterCustomAdd(cfg, "addMutation", CustomConfigOf(config, TRUE))
                 EXCEPT !.lastArg = <<config>>]
    /\ UNCHANGED <<store, ability, ncalls, cur, last, pubLog, fm, rel, cust, sub, asm, cache>>

\* addResolveField(config)
AddResolveField(config) ==
    /\ CustomAddEnabled
    /\ cfg' = [AfterCustomAdd(cfg, "addResolveField", ResolveFieldConfigOf(config))
                 EXCEPT !.lastArg = <<config>>]
    /\ UNCHANGED <<store, ability, ncalls, cur, last, pubLog, fm, rel, cust, sub, asm, cache>>

\* and(): back to a CrudModuleConfig over the same options
And ==
    /\ cfg.final = << >>
    /\ cfg.handle = "CustomResolverConfig"
    /\ cfg' = [Called(cfg, "and") EXCEPT !.handle = "CrudModuleConfig"]
    /\ UNCHANGED <<store, ability, ncalls, cur, last, pubLog, fm, rel, cust, sub, asm, cache>>

\* new CustomResolverConfig(options): the exported class constructed directly
\* over a builder's options, without withCustomResolver.
NewCustomResolverConfig ==
    /\ cfg.final = << >>
    /\ cfg.handle = "CrudModuleConfig"
    /\ cfg' = [Called(cfg, "new CustomResolverConfig") EXCEPT
                 !.handle = "CustomResolverConfig"]
    /\ UNCHANGED <<store, ability, ncalls, cur, last, pubLog, fm, rel, cust, sub, asm, cache>>

(***************************************************************************)
(* Resolver synthesis.  A class is the record of the members it declares   *)
(* itself; a class with its ancestors is the sequence of these records,    *)
(* the base class first.  A member is looked up as JavaScript does: in the *)
(* most derived class that declares the name.                              *)
(***************************************************************************)
\* str.charAt(0).toUpperCase() + str.slice(1)
ToUpperCase(ch) ==
    CASE ch = "p" -> "P"
      [] ch = "u" -> "U"
      [] ch = "o" -> "O"
      [] OTHER -> ch

firstLetterUppercase(str) == <<ToUpperCase(str[1])>> \o Tail(str)

\* The members createBaseCrudResolver declares: the query, mutation and
\* subscription methods of the base CRUD resolver.
\* canPerform is the argument list of the member's @CanPerform decorator, when
\* the member has one.
BaseCrudResolver ==
    LET member(kind, action) ==
            [kind |-> kind, origin |-> "base", index |-> 0,
             canPerform |-> << <<[action |-> action, resource |-> ModelName]>> >>]
    IN (<<"findOne">> :> member("query", "Read"))
         @@ (<<"findMany">> :> member("query", "Read"))
         @@ (<<"create">> :> member("mutation", "Create"))
         @@ (<<"updateOne">> :> member("mutation", "Update"))
         @@ (<<"updateMany">> :> member("mutation", "Update"))
         @@ (<<"deleteOne">> :> member("mutation", "Delete"))
         @@ (<<"deleteMany">> :> member("mutation", "Delete"))
         @@ (<<"u", "ser", "s">> :>
                [kind |-> "subscription", origin |-> "base", index |-> 0,
                 canPerform |-> << >>])

\* The members a synthesized class inherits besides the operations: the
\* service property of the base CRUD resolver and the helpers getFactory,
\* resolveOneToMany and resolveOneToOne the relation resolvers call on `this`.
InheritedHelpers ==
    LET helper == [kind |-> "helper", origin |-> "base", index |-> 0,
                   canPerform |-> << >>]
    IN (<<"service">> :> helper)
         @@ (<<"getFactory">> :> helper)
         @@ (<<"resolve", "O", "neToMany">> :> helper)
         @@ (<<"resolve", "O", "neToOne">> :> helper)

\* resolveMethodName of a relation config
ResolveMethodName(config) == <<"resolve">> \o firstLetterUppercase(config.fieldName)

\* The member createOneToOneResolver / createOneToManyResolver declares.
RelationMember(config, i) ==
    ResolveMethodName(config) :>
        [kind |-> "resolveField",
         origin |-> IF config.oneToOneRelation # << >> THEN "oneToOne" ELSE "oneToMany",
         index |-> i,
         canPerform |-> << >>]

\* The member createCustomResolver declares for a method binding.
CustomMember(config, i) ==
    config.name :>
        [kind |-> IF config.isMutation THEN "mutation"
                  ELSE IF config.resolveField # << >> THEN "resolveField"
                  ELSE "query",
         origin |-> "custom",
         index |-> i,
         canPerform |-> <<config.permissions>>]

\* A subclass that does not extend the accumulator.
ExtendWithoutParent(ParentClass, own) == <<own>>

\* class ... extends ParentClass { own members }
Extend(ParentClass, own) == Append(ParentClass, own)

\* relationConfigs.reduce((AccumulatorClass, config) => ..., initial)
RECURSIVE ReduceRelations(_, _, _)
ReduceRelations(AccumulatorClass, configs, i) ==
    IF i > Len(configs) THEN AccumulatorClass
    ELSE ReduceRelations(Extend(AccumulatorClass, RelationMember(configs[i], i)),
                         configs, i + 1)

\* one createCustomResolver step per method binding, in the order they were added
RECURSIVE ReduceCustom(_, _, _)
ReduceCustom(AccumulatorClass, configs, i) ==
    IF i > Len(configs) THEN AccumulatorClass
    ELSE ReduceCustom(Extend(AccumulatorClass, CustomMember(configs[i], i)),
                      configs, i + 1)

\* The names a class has, its own and the inherited ones.
MemberNames(Class) == UNION {DOMAIN Class[k] : k \in 1..Len(Class)}

\* Class.prototype[name]
Lookup(Class, name) ==
    LET k == CHOOSE k \in 1..Len(Class) :
                 /\ name \in DOMAIN Class[k]
                 /\ \A j \in (k + 1)..Len(Class) : name \notin DOMAIN Class[j]
    IN Class[k][name]

\* The operations the framework finds on the class: one per member name.
ExposedOperations(Class) == [n \in MemberNames(Class) |-> Lookup(Class, n)]

\* createBaseCrudModule: CrudResolver = createCombinedRelationResolverClass(
\* modelName, entity, BaseCrudResolver, options.resolvers).  Which of the two
\* lists of options.resolvers is folded first is not fixed by the sources.
CrudResolver(c, order) ==
    IF order = "relationsFirst"
    THEN ReduceCustom(ReduceRelations(<<BaseCrudResolver>>, c.relationResolvers, 1),
                      Bindings(c), 1)
    ELSE ReduceRelations(ReduceCustom(<<BaseCrudResolver>>, Bindings(c), 1),
                         c.relationResolvers, 1)

\* CrudModulesFactory.using(...).forRoot([builder]); the runs of the
\* configuration specification end with it.
ForRoot ==
    /\ cfg.final = << >>
    /\ \E order \in {"relationsFirst", "customFirst"} :
          cfg' = [Called(cfg, "forRoot") EXCEPT !.final = <<CrudResolver(cfg, order)>>]
    /\ UNCHANGED <<store, ability, ncalls, cur, last, pubLog, fm, rel, cust, sub, asm, cache>>

(***************************************************************************)
(* A synthesized custom operation at run time.                             *)
(***************************************************************************)
\* The bindings createCustomResolver is given: what the three adds produce.
CustomResolvers ==
    {CustomConfigOf(config, m) : config \in BindingConfigs, m \in BOOLEAN}
        \cup {ResolveFieldConfigOf(config) : config \in ResolveFieldConfigs}

\* The GraphQL resolve info of a request and the selection parsed from it.
Infos == {"id", "id name"}
parseSelection(info) == [select |-> info]

\* The `args` argument of a request: an input object, or undefined.
Inputs == Opt({[q |-> v] : v \in Vals})
Items == {[id |-> i, val |-> 0] : i \in Ids}
Results == {"r0", "r1"}

IsFieldResolver(config) == ~config.isMutation /\ config.resolveField # << >>

Arg(role, value) == [role |-> role, value |-> value]

\* The earlier createCustomResolver: a field resolver passes (item, ability,
\* select).
FactoryArgumentsParentFirst(config, input, ab, item, select) ==
    IF IsFieldResolver(config)
    THEN <<Arg("parent", item), Arg("ability", ab), Arg("selection", select)>>
    ELSE <<Arg("input", input), Arg("ability", ab), Arg("selection", select)>>

\* The argument list of factory[config.methodName](...) in the three branches
\* of createCustomResolver.
FactoryArguments(config, input, ab, item, select) ==
    IF config.isMutation
    THEN <<Arg("input", input), Arg("ability", ab), Arg("selection", select)>>
    ELSE IF config.resolveField # << >>
    THEN <<Arg("input", input), Arg("ability", ab), Arg("parent", item),
           Arg("selection", select)>>
    ELSE <<Arg("input", input), Arg("ability", ab), Arg("selection", select)>>

IdleCust ==
    [pc |-> "idle", config |-> << >>, request |-> << >>, factory |-> << >>,
     method |-> << >>, args |-> << >>, result |-> << >>, out |-> << >>,
     thrown |-> << >>]

\* CustomResolverImpl[config.name](item?, info, ability, args): the selection
\* is parsed, the factory object fetched and its method called.
CustomOperation(F, config, input, ab, item, info) ==
    /\ cust.pc = "idle"
    /\ (item # << >>) = IsFieldResolver(config)
    /\ cust' = [IdleCust EXCEPT
                  !.pc = "factory",
                  !.config = <<config>>,
                  !.request = <<[input |-> input, ability |-> ab, item |-> item,
                                 info |-> info]>>,
                  !.factory = <<F>>,
                  !.method = <<config.methodName>>,
                  !.args = FactoryArguments(config, input, ab, item,
                                            parseSelection(info))]
    /\ UNCHANGED <<store, ability, ncalls, cur, last, pubLog, fm, rel, cfg, sub, asm, cache>>

\* The factory method resolves with r: `return factory[config.methodName](...)`.
FactoryMethodReturns(r) ==
    /\ cust.pc = "factory"
    /\ cust' = [cust EXCEPT !.pc = "returned", !.result = <<r>>, !.out = <<r>>]
    /\ UNCHANGED <<store, ability, ncalls, cur, last, pubLog, fm, rel, cfg, sub, asm, cache>>

\* The factory method rejects with e: so does the operation.
FactoryMethodThrows(e) ==
    /\ cust.pc = "factory"
    /\ cust' = [cust EXCEPT !.pc = "threw", !.thrown = <<e>>]
    /\ UNCHANGED <<store, ability, ncalls, cur, last, pubLog, fm, rel, cfg, sub, asm, cache>>

(***************************************************************************)
(* Module assembly.  options.providers, controllers, imports and exports   *)
(* are optional arrays; an array is an object, so a second holder of it    *)
(* sees every later push.  The assembled module holds, per list, either    *)
(* an array of its own or a reference to the array of the options.         *)
(***************************************************************************)
ListKeys == {"providers", "controllers", "imports", "exports"}
Classes == {"X", "Y"}
\* The argument lists of the variadic builder calls.
ArgLists == {<< >>, <<"X">>, <<"Y", "X">>}

\* A builder whose calls put the new entries in front.
PushAllInFront(list, args) ==
    IF list = << >> THEN <<args>> ELSE <<args \o list[1]>>

\* if (!this.options.list) this.options.list = []; this.options.list.push(...args)
PushAll(list, args) ==
    IF list = << >> THEN <<args>> ELSE <<list[1] \o args>>

IdleAsm ==
    [options |-> [k \in ListKeys |-> << >>],
     calls |-> 0,
     lastCall |-> "withConfig",
     args |-> << >>,
     module |-> << >>,
     returned |-> << >>]

BuilderCall(call, target, args) ==
    /\ asm.calls < MaxBuilderCalls
    /\ asm' = [asm EXCEPT !.options[target] = PushAll(@, args),
                          !.calls = @ + 1,
                          !.lastCall = call,
                          !.args = args]
    /\ UNCHANGED <<store, ability, ncalls, cur, last, pubLog, fm, rel, cfg, cust, sub, cache>>

\* withProviders(...providers)
WithProviders(args) == BuilderCall("withProviders", "providers", args)

\* withControllers(...controllers)
WithControllers(args) == BuilderCall("withControllers", "controllers", args)

\* withAuthorization(...authorizer): return this.withProviders(...authorizer)
WithAuthorization(args) == BuilderCall("withAuthorization", "providers", args)

\* import(...imports)
Import(args) == BuilderCall("import", "imports", args)

\* export(...exports)
Export(args) == BuilderCall("export", "exports", args)

\* options.list as the module keeps it: the same array, or undefined.
SameArray(key) == IF asm.options[key] = << >> THEN << >> ELSE <<key>>

\* BaseCrudModule.forRoot(): imports, exports and controllers are the arrays
\* of the options; providers is a new array.
BaseCrudModule ==
    [imports |-> SameArray("imports"),
     exports |-> SameArray("exports"),
     controllers |-> SameArray("controllers"),
     providers |-> <<"CrudResolver", "BaseCrudServiceProvider">>
                     \o (IF asm.options["providers"] = << >> THEN << >>
                         ELSE asm.options["providers"][1])]

\* What a reader of the module finds in its four lists.
ModuleLists(m, options) ==
    [imports |-> IF m.imports = << >> THEN << >> ELSE options[m.imports[1]],
     exports |-> IF m.exports = << >> THEN << >> ELSE options[m.exports[1]],
     controllers |-> IF m.controllers = << >> THEN << >>
                     ELSE options[m.controllers[1]],
     providers |-> <<m.providers>>]

\* CrudModulesFactory.using(...).forRoot([builder]): createBaseCrudModule(
\* dataProviderToken, fieldSelectionProviderToken, builder.options)
AssembleForRoot ==
    /\ asm.module = << >>
    /\ asm' = [asm EXCEPT !.module = <<BaseCrudModule>>,
                          !.returned = <<ModuleLists(BaseCrudModule, asm.options)>>,
                          !.lastCall = "forRoot",
                          !.args = << >>]
    /\ UNCHANGED <<store, ability, ncalls, cur, last, pubLog, fm, rel, cfg, cust, sub, cache>>

(***************************************************************************)
(* createFindMany and its module-level cache.  A class is an object: two   *)
(* classes made by two calls differ even when they look alike, so each     *)
(* class carries the number of the call that made it.                      *)
(***************************************************************************)
\* Model names, as the pieces firstLetterUppercase looks at.
FindManyModelNames == {<<"u", "ser">>, <<"U", "ser">>, <<"p", "ost">>}
WhereInputs == {"UserWhereInput", "PostWhereInput"}

\* const className = `${firstLetterUppercase(modelName)}FindManyArgs`
ClassNameOf(modelName) == firstLetterUppercase(modelName) \o <<"FindManyArgs">>

\* new Map(): no entry.
EmptyCache == [map |-> << >>, log |-> << >>]

\* class FindManyArgs { @Field(() => whereInput) where; pagination }, named
\* className.
FindManyArgsClass(className, whereInput, serial) ==
    [name |-> className, where |-> whereInput, serial |-> serial]

\* A createFindMany that makes a new class at every call.
ReturnedTypeAlwaysNew(map, className, whereInput, serial) ==
    FindManyArgsClass(className, whereInput, serial)

\* What createFindMany returns: the cached class if the cache has the class
\* name, else a new class.
ReturnedType(map, className, whereInput, serial) ==
    IF className \in DOMAIN map
    THEN map[className]
    ELSE FindManyArgsClass(className, whereInput, serial)

\* createFindMany(whereInput, modelName)
CreateFindMany(whereInput, modelName) ==
    /\ Len(cache.log) < MaxFindManyCalls
    /\ LET className == ClassNameOf(modelName)
           type == ReturnedType(cache.map, className, whereInput,
                                Len(cache.log) + 1)
       IN cache' = [map |-> IF className \in DOMAIN cache.map
                            THEN cache.map
                            ELSE (className :> type) @@ cache.map,
                    log |-> Append(cache.log,
                                   [modelName |-> modelName,
                                    whereInput |-> whereInput,
                                    returned |-> type])]
    /\ UNCHANGED <<store, ability, ncalls, cur, last, pubLog, fm, rel, cfg, cust, sub, asm>>

(***************************************************************************)
(* Initial states and specifications.                                      *)
(***************************************************************************)
InitService ==
    /\ store \in [Ids -> Slots]
    /\ ability \in Abilities
    /\ ncalls = 0
    /\ cur = IdleCall
    /\ last = NoLast
    /\ pubLog = << >>

\* A storage with every row present, for the specifications that only read it.
FullStore == [i \in Ids |-> <<i % 2>>]

IdleService ==
    /\ store = FullStore
    /\ ability = [Read |-> EmptyWhere, Update |-> EmptyWhere, Delete |-> EmptyWhere]
    /\ ncalls = 0
    /\ cur = IdleCall
    /\ last = NoLast
    /\ pubLog = << >>

Init ==
    /\ InitService
    /\ fm = IdleFm
    /\ rel = IdleRel
    /\ cfg = NewConfig
    /\ cust = IdleCust
    /\ sub = IdleSub
    /\ asm = IdleAsm
    /\ cache = EmptyCache

InitFindMany ==
    /\ IdleService
    /\ fm = IdleFm
    /\ rel = IdleRel
    /\ cfg = NewConfig
    /\ cust = IdleCust
    /\ sub = IdleSub
    /\ asm = IdleAsm
    /\ cache = EmptyCache

NextFindMany ==
    \/ \E args \in FindManyArgs : FindMany(args)
    \/ FindManyReturn

SpecFindMany == InitFindMany /\ [][NextFindMany]_vars

InitRelations ==
    /\ IdleService
    /\ fm = IdleFm
    /\ rel = IdleRel
    /\ cfg = NewConfig
    /\ cust = IdleCust
    /\ sub = IdleSub
    /\ asm = IdleAsm
    /\ cache = EmptyCache

NextRelations ==
    \/ \E e \in Entries, fk \in FkValues : ResolveOneToOne(e, fk)
    \/ \E e \in Entries, k \in ForeignKeys, i \in Ids, f \in Filters :
          ResolveOneToMany(e, k, i, f)
    \/ RelationReturn

SpecRelations == InitRelations /\ [][NextRelations]_vars

InitConfig ==
    /\ IdleService
    /\ fm = IdleFm
    /\ rel = IdleRel
    /\ cfg = NewConfig
    /\ cust = IdleCust
    /\ sub = IdleSub
    /\ asm = IdleAsm
    /\ cache = EmptyCache

NextConfig ==
    \/ \E f \in FieldNames : AddRelation(f)
    \/ \E f \in FieldNames : AddOneToOneRelation(f)
    \/ \E F \in FactoryClasses : WithCustomResolver(F)
    \/ \E config \in BindingConfigs : AddQuery(config)
    \/ \E config \in BindingConfigs : AddMutation(config)
    \/ \E config \in ResolveFieldConfigs : AddResolveField(config)
    \/ And
    \/ NewCustomResolverConfig
    \/ ForRoot

SpecConfig == InitConfig /\ [][NextConfig]_vars

NextMembers ==
    \/ \E f \in HelperFieldNames : AddRelation(f)
    \/ \E f \in HelperFieldNames : AddOneToOneRelation(f)
    \/ \E F \in FactoryClasses : WithCustomResolver(F)
    \/ \E config \in BindingConfigs : AddQuery(config)
    \/ And
    \/ ForRoot

SpecMembers == InitConfig /\ [][NextMembers]_vars

InitCustom ==
    /\ IdleService
    /\ fm = IdleFm
    /\ rel = IdleRel
    /\ cfg = NewConfig
    /\ cust = IdleCust
    /\ sub = IdleSub
    /\ asm = IdleAsm
    /\ cache = EmptyCache

NextCustom ==
    \/ \E F \in FactoryClasses, config \in CustomResolvers, input \in Inputs,
          ab \in Abilities, item \in Opt(Items), info \in Infos :
            CustomOperation(F, config, input, ab, item, info)
    \/ \E r \in Results : FactoryMethodReturns(r)
    \/ \E e \in Errors : FactoryMethodThrows(e)

SpecCustom == InitCustom /\ [][NextCustom]_vars

\* Two subscriptions are active when one mutation is requested.
InitSubscription ==
    /\ IdleService
    /\ fm = IdleFm
    /\ rel = IdleRel
    /\ cfg = NewConfig
    /\ cust = IdleCust
    /\ sub \in [SubscriberIds -> {NewSubscriber(f) : f \in SubscriptionFilters}]
    /\ asm = IdleAsm
    /\ cache = EmptyCache

NextSubscription ==
    \/ \E op \in Ops, d \in Vals, w \in Wheres, i \in Ids :
          ncalls = 0 /\ Invoke(op, d, w, i)
    \/ Prefetch
    \/ Storage
    \/ Publish
    \/ Return
    \/ \E s \in SubscriberIds : IteratorYields(s)
    \/ \E s \in SubscriberIds : FilterHook(s)
    \/ \E s \in SubscriberIds : ResolveHook(s)

SpecSubscription == InitSubscription /\ [][NextSubscription]_vars

\* Two models on one factory share the pub/sub; the service of one of them
\* serves a mutation while subscriptions are open on the resolvers of both.
InitChannels ==
    /\ store = FullStore
    /\ ability = [Read |-> EmptyWhere, Update |-> EmptyWhere, Delete |-> EmptyWhere]
    /\ ncalls = 0
    /\ cur \in {[IdleCall EXCEPT !.model = m] : m \in ModelNames}
    /\ last = NoLast
    /\ pubLog = << >>
    /\ fm = IdleFm
    /\ rel = IdleRel
    /\ cfg = NewConfig
    /\ cust = IdleCust
    /\ sub \in [SubscriberIds ->
                  {SubscriberOf(m, <<[inIds |-> <<1>>]>>) : m \in ModelNames}]
    /\ asm = IdleAsm
    /\ cache = EmptyCache

NextChannels ==
    \/ \E op \in Ops, d \in Vals, i \in Ids :
          ncalls = 0 /\ Invoke(op, d, EmptyWhere, i)
    \/ Prefetch
    \/ Storage
    \/ Publish
    \/ Return
    \/ \E s \in SubscriberIds : IteratorYields(s)
    \/ \E s \in SubscriberIds : FilterHook(s)
    \/ \E s \in SubscriberIds : ResolveHook(s)

SpecChannels == InitChannels /\ [][NextChannels]_vars

InitFindManyArgs ==
    /\ IdleService
    /\ fm = IdleFm
    /\ rel = IdleRel
    /\ cfg = NewConfig
    /\ cust = IdleCust
    /\ sub = IdleSub
    /\ asm = IdleAsm
    /\ cache = EmptyCache

NextFindManyArgs ==
    \E whereInput \in WhereInputs, modelName \in FindManyModelNames :
        CreateFindMany(whereInput, modelName)

SpecFindManyArgs == InitFindManyArgs /\ [][NextFindManyArgs]_vars

InitSubscriberAbility ==
    /\ IdleService
    /\ fm = IdleFm
    /\ rel = IdleRel
    /\ cfg = NewConfig
    /\ cust = IdleCust
    /\ sub \in [SubscriberIds ->
                  {SubscriberWith(ab, f) :
                       ab \in SubscriberAbilities,
                       f \in SubscriptionFilters \ {<< >>}}]
    /\ asm = IdleAsm
    /\ cache = EmptyCache

NextSubscriberAbility ==
    \/ \E op \in Ops, d \in Vals, i \in Ids :
          ncalls = 0 /\ Invoke(op, d, EmptyWhere, i)
    \/ Prefetch
    \/ Storage
    \/ Publish
    \/ Return
    \/ \E s \in SubscriberIds : IteratorYields(s)
    \/ \E s \in SubscriberIds : FilterHook(s)
    \/ \E s \in SubscriberIds : ResolveHook(s)

SpecSubscriberAbility == InitSubscriberAbility /\ [][NextSubscriberAbility]_vars

InitAssembly ==
    /\ IdleService
    /\ fm = IdleFm
    /\ rel = IdleRel
    /\ cfg = NewConfig
    /\ cust = IdleCust
    /\ sub = IdleSub
    /\ asm = IdleAsm
    /\ cache = EmptyCache

NextAssembly ==
    \/ \E args \in ArgLists : WithProviders(args)
    \/ \E args \in ArgLists : WithControllers(args)
    \/ \E args \in ArgLists : WithAuthorization(args)
    \/ \E args \in ArgLists : Import(args)
    \/ \E args \in ArgLists : Export(args)
    \/ AssembleForRoot

SpecAssembly == InitAssembly /\ [][NextAssembly]_vars

Next ==
    \/ \E op \in Ops, d \in Vals, w \in Wheres, i \in Ids : Invoke(op, d, w, i)
    \/ Prefetch
    \/ Storage
    \/ Publish
    \/ Return
    \/ \E i \in Ids, v \in Slots : ConcurrentWrite(i, v)

Spec == Init /\ [][Next]_vars

(***************************************************************************)
(* Properties of the CRUD service.                                         *)
(***************************************************************************)
InLog(tag) == \E n \in 1..Len(cur.log) : cur.log[n] = tag

PositionOf(tag) == CHOOSE n \in 1..Len(cur.log) : cur.log[n] = tag

PublishAttempted == InLog("publishOk") \/ InLog("publishFail")

\* C1: create, update and delete publish exactly one event, tagged CREATE,
\* UPDATE or DELETE and sent on the model's channel, when the storage call
\* succeeded; the publish comes after the storage call resolved and before the
\* method returns; when the storage call failed nothing is published.
C1_OneEventPerMutation ==
    cur.op \in SingleOps =>
        /\ InLog("storageFail") => pubLog = << >>
        /\ ~InLog("storageOk") => pubLog = << >>
        /\ (InLog("storageOk") /\ cur.pc \in {"return", "returned", "threw"}) =>
              /\ Len(pubLog) = 1
              /\ pubLog[1].chan = ModelName
              /\ pubLog[1].action =
                    (CASE cur.op = "create" -> "CREATE"
                       [] cur.op = "update" -> "UPDATE"
                       [] cur.op = "delete" -> "DELETE")
              /\ pubLog[1].data = <<cur.res[1]>>
        /\ cur.pc = "returned" =>
              cur.log = <<"invoke", "storageOk", "publishOk", "return">>

C1_Witness ==
    /\ cur.op = "create"
    /\ cur.pc = "returned"
    /\ Len(pubLog) = 1
    /\ pubLog[1].action = "CREATE"

\* C2: when the storage call of a mutation succeeded, a failure of the publish
\* is not propagated: the call still returns the mutation's result.
C2_PublishFailureNotPropagated ==
    (InLog("storageOk") /\ PublishAttempted) =>
        /\ cur.pc \in {"return", "returned"}
        /\ cur.pc = "returned" => cur.out = <<Payload>>

C2_Witness ==
    /\ cur.op = "create"
    /\ InLog("storageOk")
    /\ Len(pubLog) = 1
    /\ ~pubLog[1].ok
    /\ cur.pc = "threw"
    /\ cur.out = << >>

\* C7: updateMany and deleteMany complete the pre-fetch before the bulk
\* mutation starts and the mutation before the publish; the value returned and
\* the data of the published UPDATE_MANY / DELETE_MANY event are exactly the
\* pre-fetch result.
C7_BulkSnapshot ==
    cur.op \in BulkOps =>
        /\ InLog("storageOk") =>
              InLog("prefetchOk") /\ PositionOf("prefetchOk") < PositionOf("storageOk")
        /\ InLog("storageFail") => InLog("prefetchOk")
        /\ pubLog # << >> =>
              /\ InLog("storageOk")
              /\ Len(pubLog) = 1
              /\ pubLog[1].chan = ModelName
              /\ pubLog[1].action =
                    (IF cur.op = "updateMany" THEN "UPDATE_MANY" ELSE "DELETE_MANY")
              /\ pubLog[1].data = cur.snapshot
        /\ cur.pc = "returned" =>
              /\ cur.log = <<"invoke", "prefetchOk", "storageOk", "publishOk", "return">>
              /\ cur.out = <<cur.snapshot>>
              /\ Len(pubLog) = 1

C7_Witness ==
    /\ cur.op = "updateMany"
    /\ cur.pc = "returned"
    /\ Len(cur.snapshot) = 2
    /\ cur.out[1] # DpFindMany(store, ability, cur.where)

\* Two bulk calls in succession: the same method with the same arguments, both
\* returned, no write of another request in between.
RepeatedBulk ==
    /\ last.some
    /\ cur.pc = "returned"
    /\ ~cur.dirty
    /\ cur.op = last.op
    /\ cur.where = last.where
    /\ cur.data = last.data

\* C8 (as stated): the two runs return the same snapshot.
C8_SameSnapshotTwice ==
    RepeatedBulk => cur.out[1] = last.out

\* C8 (amended): the second run returns the rows that match the where clause
\* in the storage state the first run's mutation left; after a deleteMany
\* under an ability that may delete every row, that is no row at all.
C8_SecondRunSeesFirstMutation ==
    RepeatedBulk =>
        /\ cur.out[1] = DpFindMany(last.after, ability, cur.where)
        /\ (cur.op = "deleteMany" /\ ability.Delete = EmptyWhere) => cur.out[1] = << >>

C8_Witness ==
    /\ RepeatedBulk
    /\ cur.op = "deleteMany"
    /\ Len(last.out) = 2
    /\ cur.out[1] = << >>

(***************************************************************************)
(* Properties of findMany.                                                 *)
(***************************************************************************)
\* The custom format: take, skip, orderBy, cursor, distinct at the top level,
\* with or without where, and no pagination key.
CustomShaped(args) == args.pagination = << >>

\* The default format of the same query: {where, pagination: {take, skip}}.
AsDefaultShape(args) ==
    [IdleFm.args EXCEPT
        !.where = args.where,
        !.pagination = <<[take |-> args.take, skip |-> args.skip]>>]

\* C3: the normalisation is shape-invariant: {where: W, take, skip} gives the
\* storage call the same where and the same pagination as
\* {where: W, pagination: {take, skip}}.
C3_ShapeInvariant ==
    (fm.pc # "idle" /\ CustomShaped(fm.args)
        /\ fm.args.orderBy = << >> /\ fm.args.cursor = << >> /\ fm.args.distinct = << >>) =>
        LET sent == fm.normalizedArgs[1]
            other == NormalizedArgs(AsDefaultShape(fm.args))
        IN /\ sent.where = other.where
           /\ TakeOf(sent) = TakeOf(other)
           /\ SkipOf(sent) = SkipOf(other)

C3_Witness ==
    /\ fm.pc = "done"
    /\ fm.args.where = <<EmptyWhere>>
    /\ fm.args.take = <<1>>
    /\ fm.args.skip = <<0>>
    /\ fm.args.pagination = << >>
    /\ fm.normalizedArgs[1].pagination = << >>
    /\ fm.rows # DpFindManyPaged(store, ability, NormalizedArgs(AsDefaultShape(fm.args)))

\* C4: for a custom-shaped args the storage call carries where, take and skip
\* as pagination, orderBy, cursor and distinct: none of them is dropped.
C4_CustomFieldsCarried ==
    (fm.pc # "idle" /\ CustomShaped(fm.args)) =>
        LET sent == fm.normalizedArgs[1]
        IN /\ sent.where = OrEmpty(fm.args.where)
           /\ TakeOf(sent) = fm.args.take
           /\ SkipOf(sent) = fm.args.skip
           /\ sent.orderBy = fm.args.orderBy
           /\ sent.cursor = fm.args.cursor
           /\ sent.distinct = fm.args.distinct

C4_Witness ==
    /\ fm.pc = "done"
    /\ fm.args.where = <<[val |-> 1]>>
    /\ fm.args.pagination = << >>
    /\ fm.args.orderBy = <<"asc">>
    /\ fm.args.cursor = <<1>>
    /\ fm.args.distinct = <<"val">>
    /\ fm.normalizedArgs[1].orderBy = << >>
    /\ fm.normalizedArgs[1].cursor = << >>
    /\ fm.normalizedArgs[1].distinct = << >>

(***************************************************************************)
(* Properties of relation resolution.                                      *)
(***************************************************************************)
\* C5: resolving a one-to-one relation whose foreign-key value is null,
\* undefined or the empty string returns null and makes no storage call.
C5_EmptyKeyNoStorageCall ==
    (rel.kind = "oneToOne" /\ rel.pc # "idle" /\ Falsy(rel.fk)) =>
        /\ rel.dpCalls = << >>
        /\ rel.pc = "done"
        /\ rel.result = <<"null">>

C5_Witness ==
    /\ rel.kind = "oneToOne"
    /\ rel.entry = "service"
    /\ rel.fk.t = "null"
    /\ rel.pc = "done"
    /\ Len(rel.dpCalls) = 1
    /\ rel.result = <<"row">>

\* C6: the where clause a one-to-many resolution sends to storage maps the
\* configured foreign key to the parent's id, whatever the caller's filter
\* holds under that key; the caller's other keys are kept.
C6_ForeignKeyOverrides ==
    (rel.kind = "oneToMany" /\ rel.pc # "idle") =>
        LET sent == rel.dpCalls[1].where
            given == IF rel.filter = << >> THEN EmptyWhere ELSE OrEmpty(rel.filter[1].where)
        IN /\ Len(rel.dpCalls) = 1
           /\ rel.dpCalls[1].op = "findMany"
           /\ DOMAIN sent = DOMAIN given \cup {rel.foreignKey}
           /\ sent[rel.foreignKey] = rel.parentId
           /\ \A k \in DOMAIN given \ {rel.foreignKey} : sent[k] = given[k]

C6_Witness ==
    /\ rel.kind = "oneToMany"
    /\ rel.pc = "done"
    /\ rel.filter # << >>
    /\ rel.filter[1].where # << >>
    /\ "authorId" \in DOMAIN rel.filter[1].where[1]
    /\ rel.filter[1].where[1]["authorId"] # rel.parentId
    /\ rel.dpCalls[1].where["authorId"] = rel.parentId

FinalOperations == ExposedOperations(cfg.final[1])

NumConfigs == Len(cfg.relationResolvers) + Len(Bindings(cfg))

HasOwnOperation(origins, i) ==
    \E n \in DOMAIN FinalOperations :
        FinalOperations[n].origin \in origins /\ FinalOperations[n].index = i

EveryConfigHasItsOperation ==
    /\ \A i \in 1..Len(cfg.relationResolvers) : HasOwnOperation({"oneToOne", "oneToMany"}, i)
    /\ \A i \in 1..Len(Bindings(cfg)) : HasOwnOperation({"custom"}, i)

NumBaseOperations ==
    Cardinality({n \in DOMAIN FinalOperations : FinalOperations[n].origin = "base"})

\* C10 (as stated): the synthesized class exposes one operation for each of 6
\* base CRUD operations, the subscription, each relation config and each
\* method binding, none missing and none duplicated.
C10_SixBasePlusOnePerConfig ==
    cfg.final # << >> =>
        /\ Cardinality(DOMAIN FinalOperations) = 6 + 1 + NumConfigs
        /\ EveryConfigHasItsOperation

\* The member names the configuration asks for.
ConfiguredNames ==
    {<<"findOne">>, <<"findMany">>, <<"create">>, <<"updateOne">>, <<"updateMany">>,
     <<"deleteOne">>, <<"deleteMany">>, <<"u", "ser", "s">>}
      \cup {<<"resolve">> \o firstLetterUppercase(cfg.relationResolvers[i].fieldName) :
                i \in 1..Len(cfg.relationResolvers)}
      \cup {Bindings(cfg)[i].name : i \in 1..Len(Bindings(cfg))}

\* C10 (amended): the synthesized class exposes exactly one operation per
\* member name the configuration asks for - the 7 base CRUD methods, the
\* subscription, resolve{FieldName} of each relation config, the name of each
\* method binding - in whichever order the configs were added and folded.
\* When these names are all different, that is 7 base operations, the
\* subscription and one operation of its own for every relation config and
\* every binding; configs that share a member name share one operation.
C10_OneOperationPerMemberName ==
    cfg.final # << >> =>
        /\ DOMAIN FinalOperations = ConfiguredNames
        /\ Cardinality(DOMAIN FinalOperations) <= 7 + 1 + NumConfigs
        /\ Cardinality(ConfiguredNames) = 7 + 1 + NumConfigs =>
              /\ NumBaseOperations = 7 + 1
              /\ EveryConfigHasItsOperation
        /\ Cardinality(ConfiguredNames) < 7 + 1 + NumConfigs =>
              ~(NumBaseOperations = 7 + 1 /\ EveryConfigHasItsOperation)

C10_Witness ==
    /\ cfg.final # << >>
    /\ Len(cfg.relationResolvers) = 2
    /\ cfg.relationResolvers[1].fieldName # cfg.relationResolvers[2].fieldName
    /\ Cardinality(DOMAIN FinalOperations) = 7 + 1 + 1
    /\ ~HasOwnOperation({"oneToOne", "oneToMany"}, 1)

(***************************************************************************)
(* Failures of the storage collaborator.                                   *)
(***************************************************************************)
\* How many times the call made the storage call logged as ok or as fail.
TimesInvoked(ok, fail) ==
    Cardinality({n \in 1..Len(cur.log) : cur.log[n] \in {ok, fail}})

C20_BulkFailureAborts ==
    cur.op \in BulkOps =>
        /\ InLog("prefetchFail") =>
              /\ TimesInvoked("storageOk", "storageFail") = 0
              /\ pubLog = << >>
              /\ ~PublishAttempted
              /\ cur.pc = "threw"
              /\ cur.out = << >>
        /\ InLog("storageFail") =>
              /\ InLog("prefetchOk")
              /\ pubLog = << >>
              /\ ~PublishAttempted
              /\ cur.pc = "threw"
              /\ cur.out = << >>
              /\ cur.thrown = cur.raised
              /\ cur.thrown # << >>

C20_Witness ==
    /\ cur.op = "deleteMany"
    /\ cur.log = <<"invoke", "prefetchOk", "storageFail">>
    /\ cur.snapshot # << >>
    /\ cur.pc = "threw"
    /\ cur.out = << >>
    /\ pubLog = << >>

(***************************************************************************)
(* Interleaving of another request's write with a bulk call.               *)
(***************************************************************************)
SameCondition ==
    ability.Read = (IF cur.op = "updateMany" THEN ability.Update ELSE ability.Delete)

\* C19: nothing locks the rows between the pre-fetch and the bulk mutation of
\* updateMany/deleteMany: after a write of another request in between, the
\* bulk mutation is still carried out on the rows as they then are, and the
\* request returns and publishes its pre-fetch snapshot all the same; only
\* without such a write (and with one condition for reading and writing) is
\* the snapshot the list of rows the mutation acted on.
C19_UnlockedPrefetchThenMutate ==
    cur.op \in BulkOps =>
        /\ (cur.pc = "storage" /\ cur.dirty) => StorageCan
        /\ InLog("storageOk") =>
              /\ (~cur.dirty /\ SameCondition) => cur.mutated = cur.snapshot
              /\ \A n \in 1..Len(pubLog) : pubLog[n].data = cur.snapshot
              /\ cur.pc = "returned" => cur.out = <<cur.snapshot>>

C19_Witness ==
    /\ cur.op = "deleteMany"
    /\ cur.pc = "returned"
    /\ cur.dirty
    /\ SameCondition
    /\ cur.out = <<cur.snapshot>>
    /\ Len(pubLog) = 1
    /\ pubLog[1].ok
    /\ pubLog[1].data = cur.snapshot
    /\ cur.snapshot # cur.mutated
    /\ \E n \in 1..Len(cur.mutated) :
          \A k \in 1..Len(cur.snapshot) : cur.snapshot[k].id # cur.mutated[n].id

(***************************************************************************)
(* Method bindings.                                                        *)
(***************************************************************************)
\* The last builder call was a custom add that returned normally.
CustomAddReturned ==
    /\ cfg.lastCall \in CustomAdds
    /\ cfg.lastArg # << >>
    /\ cfg.thrown = << >>

BindingsBefore ==
    IF cfg.before.customResolvers = << >> THEN << >>
    ELSE cfg.before.customResolvers[1].customResolvers

\* The call appended exactly one binding.
OneBindingAppended ==
    /\ Len(Bindings(cfg)) = Len(BindingsBefore) + 1
    /\ SubSeq(Bindings(cfg), 1, Len(BindingsBefore)) = BindingsBefore

\* The appended binding has the caller's name, input type (when one was
\* given), nullability, method name and permission list.
CarriesAllButOutputType ==
    LET config == cfg.lastArg[1]
        binding == Bindings(cfg)[Len(Bindings(cfg))]
    IN /\ binding.name = config.name
       /\ config.inputType # << >> => binding.inputType = config.inputType
       /\ binding.nullable = config.nullable
       /\ binding.methodName = config.methodName
       /\ binding.permissions = config.permissions

\* C15: each addQuery, addMutation or addResolveField call appends exactly one
\* method binding, which carries the operation name, input type, output type,
\* nullability, method name and permission list the caller supplied.
C15_BindingCarriesCallerConfig ==
    CustomAddReturned =>
        /\ OneBindingAppended
        /\ CarriesAllButOutputType
        /\ Bindings(cfg)[Len(Bindings(cfg))].outputType.type
              = cfg.lastArg[1].outputType.type

(***************************************************************************)
(* Authorization requirements of the synthesized operations.               *)
(***************************************************************************)
\* C11: every operation of the synthesized resolver class other than the
\* subscription carries a CanPerform requirement: the base CRUD queries and
\* mutations, the relation field resolvers and the custom bindings.
C11_EveryOperationCanPerform ==
    cfg.final # << >> =>
        \A n \in DOMAIN FinalOperations :
            FinalOperations[n].kind # "subscription" =>
                FinalOperations[n].canPerform # << >>

\* The operations that do carry one: the base CRUD operations and the custom
\* bindings, the latter with the binding's permission list.
CanPerformWhereDeclared ==
    cfg.final # << >> =>
        \A n \in DOMAIN FinalOperations :
            LET operation == FinalOperations[n]
            IN /\ operation.origin = "base" /\ operation.kind # "subscription"
                    => operation.canPerform # << >>
               /\ operation.origin = "custom"
                    => operation.canPerform
                         = <<Bindings(cfg)[operation.index].permissions>>

(***************************************************************************)
(* Invocation of the bound factory method.                                 *)
(***************************************************************************)
Roles(args) == [n \in 1..Len(args) |-> args[n].role]

\* C12: the operation synthesized for a method binding calls the bound method
\* of the factory with (input, authorization context, parent entity only for
\* a field resolver, selection), in this order, and returns the method's
\* result unchanged.
C12_FixedArgumentOrder ==
    cust.pc # "idle" =>
        LET config == cust.config[1]
            request == cust.request[1]
        IN /\ cust.method = <<config.methodName>>
           /\ Roles(cust.args) =
                 (IF IsFieldResolver(config)
                  THEN <<"input", "ability", "parent", "selection">>
                  ELSE <<"input", "ability", "selection">>)
           /\ cust.args[1].value = request.input
           /\ cust.args[2].value = request.ability
           /\ IsFieldResolver(config) => cust.args[3].value = request.item
           /\ cust.args[Len(cust.args)].value = parseSelection(request.info)
           /\ cust.pc = "returned" => cust.out = cust.result /\ cust.out # << >>
           /\ cust.pc = "threw" => cust.out = << >>

C12_Witness ==
    /\ cust.pc = "returned"
    /\ IsFieldResolver(cust.config[1])
    /\ Len(cust.args) = 4
    /\ cust.args[1].value # << >>
    /\ cust.args[3].role = "parent"
    /\ cust.out = <<"r1">>

(***************************************************************************)
(* The module lists of the builder and of the assembled module.            *)
(***************************************************************************)
ListOf(list) == IF list = << >> THEN << >> ELSE list[1]

TargetOf(call) ==
    CASE call \in {"withProviders", "withAuthorization"} -> "providers"
      [] call = "withControllers" -> "controllers"
      [] call = "import" -> "imports"
      [] call = "export" -> "exports"

\* C14: each withProviders, withAuthorization, withControllers, import and
\* export call appends its arguments, in argument order, at the end of its
\* target list, keeps the entries added earlier in place and leaves the other
\* lists of the options unchanged.
C14_AppendOnly ==
    [][asm'.calls = asm.calls + 1 =>
          LET target == TargetOf(asm'.lastCall)
          IN /\ asm'.options[target] # << >>
             /\ ListOf(asm'.options[target])
                   = ListOf(asm.options[target]) \o asm'.args
             /\ \A k \in ListKeys \ {target} :
                   asm'.options[k] = asm.options[k]]_vars

C14_Witness ==
    /\ asm.lastCall = "withAuthorization"
    /\ asm.args = <<"Y", "X">>
    /\ asm.options["providers"] = << <<"X", "Y", "X">> >>
    /\ asm.options["imports"] = << <<"X">> >>
    /\ asm.options["exports"] = << >>

\* C18: once forRoot has returned the module, no later builder call changes
\* the imports, exports, controllers or providers of the assembled module.
C18_ModuleUnchangedAfterForRoot ==
    asm.module # << >> =>
        ModuleLists(asm.module[1], asm.options) = asm.returned[1]

\* The part that holds: the providers, and every list that was undefined when
\* forRoot ran, stay as forRoot returned them.
CopiedOrUndefinedUnchanged ==
    asm.module # << >> =>
        LET now == ModuleLists(asm.module[1], asm.options)
        IN /\ now.providers = asm.returned[1].providers
           /\ \A k \in {"imports", "exports", "controllers"} :
                 asm.returned[1][k] = << >> => now[k] = << >>

(***************************************************************************)
(* What subscribers receive.                                               *)
(***************************************************************************)
Delivered(s) == sub[s].out # << >>

Received(s) == sub[s].taken + Len(sub[s].queue)

NumPublished == Cardinality({n \in 1..Len(pubLog) : pubLog[n].ok})

\* C17: whatever the subscribers do - lag behind with the payload still
\* queued, or fail in their filter or resolve hook - the service call whose
\* publish resolved returns its own result, and every subscriber has got
\* every published payload, also when another subscriber lags or failed.
C17_SubscribersDoNotAffectMutation ==
    /\ InLog("publishOk") =>
          /\ cur.pc \in {"return", "returned"}
          /\ cur.thrown = << >>
          /\ cur.pc = "returned" => cur.out = <<Payload>>
    /\ \A s \in DOMAIN sub : Received(s) = NumPublished
    /\ \A s \in DOMAIN sub :
          sub[s].error # << >> => sub[s].pc = "failed" /\ sub[s].out = << >>

C17_Witness ==
    /\ cur.op = "update"
    /\ cur.pc = "returned"
    /\ cur.out = <<Payload>>
    /\ sub[1].pc = "failed"
    /\ sub[1].error = <<"TypeError">>
    /\ sub[2].pc = "waiting"
    /\ sub[2].queue # << >>

(***************************************************************************)
(* Shape of the published data.                                            *)
(***************************************************************************)
\* C21: the data of every published event is an array: for create, update
\* and delete the one-element array holding the entity the call returns, for
\* updateMany and deleteMany the returned array itself, not wrapped again.
C21_EventDataIsArrayOfReturned ==
    \A n \in 1..Len(pubLog) :
        IF cur.op \in SingleOps
        THEN /\ Len(pubLog[n].data) = 1
             /\ pubLog[n].data[1] = cur.res[1]
             /\ pubLog[n].data[1].id \in Ids
             /\ cur.pc = "returned" => cur.out = <<pubLog[n].data[1]>>
        ELSE /\ pubLog[n].data = cur.snapshot
             /\ \A k \in 1..Len(pubLog[n].data) : pubLog[n].data[k].id \in Ids
             /\ cur.pc = "returned" => cur.out = <<pubLog[n].data>>

C21_Witness ==
    /\ cur.op = "deleteMany"
    /\ cur.pc = "returned"
    /\ Len(pubLog) = 1
    /\ pubLog[1].ok
    /\ Len(pubLog[1].data) = NumIds
    /\ cur.out = <<pubLog[1].data>>

(***************************************************************************)
(* Rows reported and rows written by a bulk call.                          *)
(***************************************************************************)
IdsOf(rows) == {rows[n].id : n \in 1..Len(rows)}

\* C29: without a write of another request in between, the entities a bulk
\* call returns and publishes are the rows its bulk mutation modified or
\* removed, whatever the authorization context.
C29_ReturnedAreMutated ==
    (cur.op \in BulkOps /\ ~cur.dirty /\ cur.pc = "returned") =>
        /\ IdsOf(cur.out[1]) = IdsOf(cur.mutated)
        /\ \A n \in 1..Len(pubLog) : IdsOf(pubLog[n].data) = IdsOf(cur.mutated)

\* The case the claim is wrong about: the caller may read more rows than it
\* may update, and the call reports a row it did not touch.
C29_Witness ==
    /\ cur.op = "updateMany"
    /\ cur.pc = "returned"
    /\ ~cur.dirty
    /\ ability.Read # ability.Update
    /\ \E i \in IdsOf(cur.out[1]) :
          /\ i \notin IdsOf(cur.mutated)
          /\ store[i] # <<cur.data>>

(***************************************************************************)
(* Channels.                                                               *)
(***************************************************************************)
\* C22: an event published by the service of one model reaches the
\* subscriptions opened on that model's channel, all of them, and never a
\* subscription of another model.
C22_ChannelPerModel ==
    \A s \in DOMAIN sub :
        IF sub[s].chan = cur.model
        THEN Received(s) = NumPublished
        ELSE /\ Received(s) = 0
             /\ sub[s].payload = << >>
             /\ sub[s].out = << >>

C22_Witness ==
    /\ cur.model = "user"
    /\ cur.pc = "returned"
    /\ NumPublished = 1
    /\ sub[1].chan = "user"
    /\ sub[1].out # << >>
    /\ sub[2].chan = "post"
    /\ sub[2] = SubscriberOf("post", sub[2].filter)

(***************************************************************************)
(* The generated find-many input types.                                    *)
(***************************************************************************)
\* C23: two createFindMany calls with the same model name return the same
\* type, and the type a call returned is still the cache's entry for its
\* class name: no entry is evicted or replaced.
C23_MemoizedPerModelName ==
    /\ \A i, j \in 1..Len(cache.log) :
          cache.log[i].modelName = cache.log[j].modelName
              => cache.log[i].returned = cache.log[j].returned
    /\ \A i \in 1..Len(cache.log) :
          /\ ClassNameOf(cache.log[i].modelName) \in DOMAIN cache.map
          /\ cache.map[ClassNameOf(cache.log[i].modelName)] = cache.log[i].returned

C23_Witness ==
    /\ Len(cache.log) = 3
    /\ cache.log[1].modelName = <<"u", "ser">>
    /\ cache.log[2].modelName = <<"p", "ost">>
    /\ cache.log[3].modelName = <<"u", "ser">>
    /\ cache.log[3].returned = cache.log[1].returned
    /\ cache.log[3].returned.serial = 1

\* C24: the type createFindMany(whereInput, modelName) returns has its where
\* field typed by the whereInput of that same call, whatever calls came
\* before.
C24_WhereTypedByOwnWhereInput ==
    \A i \in 1..Len(cache.log) :
        cache.log[i].returned.where = cache.log[i].whereInput

C24_Witness ==
    /\ Len(cache.log) = 2
    /\ cache.log[1].modelName = <<"u", "ser">>
    /\ cache.log[1].whereInput = "UserWhereInput"
    /\ cache.log[2].modelName = <<"U", "ser">>
    /\ cache.log[2].whereInput = "PostWhereInput"
    /\ cache.log[2].returned.where = "UserWhereInput"

(***************************************************************************)
(* The default subscription resolution.                                    *)
(***************************************************************************)
\* C27: the default filter, run for any filter variable the subscription
\* admits - the absent one included - ends with true or false and never with
\* an error.
C27_DefaultFilterNeverRaises ==
    \A s \in DOMAIN sub :
        sub[s].payload # << >> /\ sub[s].pc # "filter"
            => sub[s].error # <<"TypeError">>

C27_Witness ==
    /\ sub[1].filter = << >>
    /\ sub[1].payload # << >>
    /\ sub[1].pc = "failed"
    /\ sub[1].error = <<"TypeError">>

InFilter(s, i) ==
    \E n \in 1..Len(sub[s].filter[1].inIds) : sub[s].filter[1].inIds[n] = i

\* C28: what a subscriber is delivered for the event of a delete or
\* deleteMany contains every deleted entity whose id is in its id list.
C28_DeletedEntityDelivered ==
    \A s \in DOMAIN sub :
        Delivered(s) /\ sub[s].payload[1].action \in {"DELETE", "DELETE_MANY"}
            => \A k \in 1..Len(sub[s].payload[1].data) :
                   InFilter(s, sub[s].payload[1].data[k].id)
                       => \E n \in 1..Len(sub[s].out[1]) :
                              sub[s].out[1][n] = sub[s].payload[1].data[k]

C28_Witness ==
    /\ cur.op = "delete"
    /\ cur.id = 1
    /\ cur.pc = "returned"
    /\ store[1] = NoVal
    /\ sub[1].filter = <<[inIds |-> <<1>>]>>
    /\ Delivered(1)
    /\ sub[1].payload[1].action = "DELETE"
    /\ sub[1].payload[1].data[1].id = 1
    /\ sub[1].out[1] = << >>

\* C30: every entity delivered to a subscriber is one a find-many under the
\* subscriber's own ability returns.
C30_DeliveredAreReadable ==
    \A s \in DOMAIN sub :
        Delivered(s) =>
            \A n \in 1..Len(sub[s].out[1]) :
                \E k \in 1..Len(DpFindMany(store, sub[s].ability, EmptyWhere)) :
                    DpFindMany(store, sub[s].ability, EmptyWhere)[k] = sub[s].out[1][n]

C30_Witness ==
    /\ sub[1].ability.Read = [val |-> 0]
    /\ sub[1].filter = <<[inIds |-> <<1>>]>>
    /\ store[1] = <<1>>
    /\ store[2] = <<0>>
    /\ DpFindMany(store, sub[1].ability, EmptyWhere) = <<RowOf(store, 2)>>
    /\ Delivered(1)
    /\ sub[1].out[1] = <<RowOf(store, 1)>>

(***************************************************************************)
(* The factory class a binding is dispatched to, and the members a fold    *)
(* step replaces.                                                          *)
(***************************************************************************)
\* C25: every method binding of the synthesized class is invoked on an
\* instance of the factory class under which it was added.
C25_DispatchedToOwnFactory ==
    cfg.final # << >> =>
        \A i \in 1..Len(Bindings(cfg)) : FactoryClassOf(cfg) = cfg.under[i]

C25_Witness ==
    /\ cfg.final # << >>
    /\ Len(Bindings(cfg)) = 1
    /\ cfg.under = <<"A">>
    /\ FactoryClassOf(cfg) = "B"
    /\ cfg.providers = << <<"A", "B">> >>

\* The synthesized class with every member it has, operation or not.
FinalClass == <<InheritedHelpers>> \o cfg.final[1]

\* C26: whatever field names and binding names were configured, each base
\* CRUD method, the subscription, the service property and the helpers
\* resolveOneToOne, resolveOneToMany and getFactory of the final class are
\* the inherited ones.
C26_InheritedMembersKept ==
    cfg.final # << >> =>
        \A n \in DOMAIN InheritedHelpers \cup DOMAIN BaseCrudResolver :
            Lookup(FinalClass, n).origin = "base"

C26_Witness ==
    /\ cfg.final # << >>
    /\ Len(cfg.relationResolvers) = 1
    /\ cfg.relationResolvers[1].fieldName = <<"o", "neToMany">>
    /\ Lookup(FinalClass, <<"resolve", "O", "neToMany">>).origin # "base"

====
